---- MODULE Spec2Model ----
(***************************************************************************)
(* A model of EmoBot: the profile store (database.py), the similarity      *)
(* engine (matching.py), the message buffer and the analysis gate          *)
(* (bot.py on_message, llm_analysis.py), the interactive commands and the  *)
(* daily_analysis cycle (bot.py).                                          *)
(*                                                                         *)
(* Handlers are coroutines: a handler runs without interruption between    *)
(* two awaits, so every action below is the code between two suspension    *)
(* points of one handler.                                                  *)
(***************************************************************************)
EXTENDS Integers, Sequences, FiniteSets, TLC

VARIABLES
    db_users,       \* users table: the row of each discord_id (exists = FALSE: no row)
    db_items,       \* user_games / user_artists / user_interests: the item names of each user
    user_messages,  \* bot.py:22, the list of each key of the dict (<<>>: key absent)
    um_order,       \* bot.py:22, the keys of user_messages in insertion order
    tasks,          \* the coroutines: the interactive commands in flight and daily_analysis
    recorded,       \* history: fragments recorded per identity since the last clear
    budget,         \* history: how many commands and messages have started, and every
                    \* snapshot a committed save has stored for each identity
    fn              \* argument and result of a pure function under check

vars == <<db_users, db_items, user_messages, um_order, tasks, recorded, budget, fn>>

(***************************************************************************)
(* Bounds of the model.                                                    *)
(***************************************************************************)
MaxCmds == 1        \* interactive commands started in one behaviour
MaxMsgs == 3        \* messages recorded in one behaviour of Spec
MaxCand == 6        \* candidate profiles handed to find_matches in SpecFn
MaxFrags == 5       \* fragments handed to should_process_messages in SpecFn
MaxBufMsgs == 52    \* messages recorded in one behaviour of SpecBuf
MaxChat == 5        \* messages, of users and of the bot, in one behaviour of SpecBot

(***************************************************************************)
(* Program constants.                                                      *)
(***************************************************************************)
BufferCap == 50         \* bot.py:181
MinFragments == 3       \* llm_analysis.py:77
MinTotalLength == 100   \* llm_analysis.py:81
TopN == 5               \* matching.py:36
ExtractCap == 3         \* llm_analysis.py:64
\* threshold: float = 0.3 (matching.py:22), kept as the fraction 3/10
ThresholdNum == 3
ThresholdDen == 10

None == "None"

Users == {"u1", "u2"}
BotUser == "bot"
\* str(message.author.id) of the authors on_message hears
Authors == Users \cup {BotUser}
Guilds == {"g1", "g2"}
\* bot.guilds, in the order the cycle walks it (bot.py:234): g2 comes before g1
GuildOrder == <<"g2", "g1">>
\* guild.get_member: the members of each guild. g3 and g4 are the guilds of
\* the candidates c1..c8 that SpecFn ranks, g5 is a guild without the subject s
Members(g) ==
    CASE g = "g1" -> {"u1", "u2"}
      [] g = "g2" -> {"u1"}
      [] g = "g3" -> {"s", "c1", "c2", "c3", "c4", "c5", "c6", "c7", "c8"}
      [] g = "g5" -> {"c1", "c2", "c3"}
      [] OTHER -> {"s", "c1", "c3", "c4", "c5", "c6", "c7", "c8"}

Categories == {"games", "artists", "interests"}

(***************************************************************************)
(* str.lower() on the strings of the model.                                *)
(***************************************************************************)
Lower(s) ==
    CASE s = "Chess" -> "chess"
      [] s = "Go" -> "go"
      [] s = "Halo" -> "halo"
      [] s = "Tetris" -> "tetris"
      [] s = "Games" -> "games"
      [] s = "Artists" -> "artists"
      [] OTHER -> s

Range(q) == {q[i] : i \in 1..Len(q)}

\* [item.lower() for item in category_list]
LowerAll(q) == [i \in 1..Len(q) |-> Lower(q[i])]

(***************************************************************************)
(* database.py:6-15, the UserProfile dataclass. username and               *)
(* last_processed_message are carried by the code but never read by the    *)
(* operations modelled here; id is None until the row is known.            *)
(***************************************************************************)
UserProfile(did, g, a, i, se, rid) ==
    [discord_id |-> did, games |-> g, artists |-> a, interests |-> i,
     scanning_enabled |-> se, id |-> rid]

\* UserProfile(discord_id=..., games=[], artists=[], interests=[]) of bot.py:60-66
FreshProfile(did) == UserProfile(did, <<>>, <<>>, <<>>, TRUE, None)

(***************************************************************************)
(* matching.py:5-20. A score is the fraction <<num, den>>; the float       *)
(* total_common / ((t1 + t2) / 2) is the fraction 2*common / (t1 + t2),    *)
(* and min(similarity, 1.0) caps it at 1/1.                                *)
(***************************************************************************)
Common(l1, l2) == Cardinality(Range(l1) \cap Range(l2))

\* the score normalised by the first profile alone
calculate_similarity_by_first(profile1, profile2) ==
    LET total_items1 == Len(profile1.games) + Len(profile1.artists) + Len(profile1.interests)
        total_items2 == Len(profile2.games) + Len(profile2.artists) + Len(profile2.interests)
        total_common == Common(profile1.games, profile2.games)
                      + Common(profile1.artists, profile2.artists)
                      + Common(profile1.interests, profile2.interests)
    IN  IF total_items1 = 0 \/ total_items2 = 0
        THEN <<0, 1>>
        ELSE <<total_common, total_items1>>

\* two profiles without items taken for identical ones
calculate_similarity_empty_equal(profile1, profile2) ==
    LET total_items1 == Len(profile1.games) + Len(profile1.artists) + Len(profile1.interests)
        total_items2 == Len(profile2.games) + Len(profile2.artists) + Len(profile2.interests)
        total_common == Common(profile1.games, profile2.games)
                      + Common(profile1.artists, profile2.artists)
                      + Common(profile1.interests, profile2.interests)
    IN  IF total_items1 = 0 /\ total_items2 = 0
        THEN <<1, 1>>
        ELSE IF 2 * total_common > total_items1 + total_items2
             THEN <<1, 1>>
             ELSE <<2 * total_common, total_items1 + total_items2>>

calculate_similarity(profile1, profile2) ==
    LET total_items1 == Len(profile1.games) + Len(profile1.artists) + Len(profile1.interests)
        total_items2 == Len(profile2.games) + Len(profile2.artists) + Len(profile2.interests)
        total_common == Common(profile1.games, profile2.games)
                      + Common(profile1.artists, profile2.artists)
                      + Common(profile1.interests, profile2.interests)
    IN  IF total_items1 = 0 \/ total_items2 = 0
        THEN <<0, 1>>
        ELSE IF 2 * total_common > total_items1 + total_items2
             THEN <<1, 1>>
             ELSE <<2 * total_common, total_items1 + total_items2>>

\* comparisons of two scores (denominators are positive)
ScoreGeq(s, t) == s[1] * t[2] >= t[1] * s[2]
ScoreEq(s, t) == s[1] * t[2] = t[1] * s[2]
ScoreGt(s, t) == s[1] * t[2] > t[1] * s[2]

(***************************************************************************)
(* matching.py:35, list.sort(key=score, reverse=True): a stable sort,      *)
(* equal scores keep their order. An insertion sort that moves an element  *)
(* only past strictly smaller scores.                                      *)
(***************************************************************************)
\* an insertion that puts a pair in front of the pairs of equal score
RECURSIVE InsertDesc_before_equal(_, _)
InsertDesc_before_equal(sorted, m) ==
    IF sorted = <<>> THEN <<m>>
    ELSE IF ScoreGeq(m[2], sorted[Len(sorted)][2])
         THEN Append(InsertDesc_before_equal(SubSeq(sorted, 1, Len(sorted) - 1), m),
                     sorted[Len(sorted)])
         ELSE Append(sorted, m)

RECURSIVE InsertDesc(_, _)
InsertDesc(sorted, m) ==
    IF sorted = <<>> THEN <<m>>
    ELSE IF ScoreGt(m[2], sorted[Len(sorted)][2])
         THEN Append(InsertDesc(SubSeq(sorted, 1, Len(sorted) - 1), m), sorted[Len(sorted)])
         ELSE Append(sorted, m)

RECURSIVE SortDesc(_)
SortDesc(q) ==
    IF q = <<>> THEN <<>>
    ELSE InsertDesc(SortDesc(SubSeq(q, 1, Len(q) - 1)), q[Len(q)])

\* matches[:5]
Take(q, n) == SubSeq(q, 1, IF Len(q) < n THEN Len(q) ELSE n)

\* the test with > for >=
ClearsThresholdStrict(similarity) == ScoreGt(similarity, <<ThresholdNum, ThresholdDen>>)

\* the similarity >= threshold test of matching.py:32
ClearsThreshold(similarity) == ScoreGeq(similarity, <<ThresholdNum, ThresholdDen>>)

(***************************************************************************)
(* matching.py:24-36, find_matches after the await of find_all_except:     *)
(* all_profiles is what find_all_except returned, guild the invoking guild.*)
(***************************************************************************)
\* the loop without the test of guild.get_member
RECURSIVE MatchLoop_any_guild(_, _, _)
MatchLoop_any_guild(user_profile, all_profiles, guild) ==
    IF all_profiles = <<>> THEN <<>>
    ELSE LET other_profile == all_profiles[Len(all_profiles)]
             before == MatchLoop_any_guild(user_profile,
                                           SubSeq(all_profiles, 1, Len(all_profiles) - 1), guild)
             similarity == calculate_similarity(user_profile, other_profile)
         IN  IF ClearsThreshold(similarity)
             THEN Append(before, <<other_profile, similarity>>)
             ELSE before

RECURSIVE MatchLoop(_, _, _)
MatchLoop(user_profile, all_profiles, guild) ==
    IF all_profiles = <<>> THEN <<>>
    ELSE LET other_profile == all_profiles[Len(all_profiles)]
             before == MatchLoop(user_profile, SubSeq(all_profiles, 1, Len(all_profiles) - 1), guild)
             similarity == calculate_similarity(user_profile, other_profile)
         IN  IF other_profile.discord_id \notin Members(guild) THEN before
             ELSE IF ClearsThreshold(similarity)
                  THEN Append(before, <<other_profile, similarity>>)
                  ELSE before

find_matches(user_profile, all_profiles, guild) ==
    Take(SortDesc(MatchLoop(user_profile, all_profiles, guild)), TopN)

(***************************************************************************)
(* llm_analysis.py:75-81                                                   *)
(* A message is modelled by its character count, which is all the code     *)
(* reads of it outside the prompt.                                         *)
(***************************************************************************)
RECURSIVE SumLen(_)
SumLen(messages) ==
    IF messages = <<>> THEN 0 ELSE messages[1] + SumLen(Tail(messages))

\* the length test with >= for >
should_process_messages_geq(messages) ==
    IF Len(messages) < MinFragments THEN FALSE
    ELSE SumLen(messages) >= MinTotalLength

should_process_messages(messages) ==
    IF Len(messages) < MinFragments THEN FALSE
    ELSE SumLen(messages) > MinTotalLength

(***************************************************************************)
(* The coroutines: the interactive command in flight and the              *)
(* daily_analysis task. Both share one record shape.                       *)
(***************************************************************************)
Handlers == {"h1"}
Cycle == "cycle"
Tasks == Handlers \cup {Cycle}

\* An optional value is a sequence of length 0 (None) or 1.
NoProfile == <<>>
Some(x) == <<x>>

IdleTask ==
    [pc |-> "idle", cmd |-> "none", user |-> None, guild |-> None,
     category |-> None, interest |-> None,
     user_profile |-> NoProfile,   \* the in-memory UserProfile of the handler
     loaded |-> NoProfile,         \* history: the profile as find_by_discord_id returned it
     user_row |-> NoProfile,       \* find_by_discord_id / find_all_except: the row being completed
     rows |-> <<>>,                \* find_all_except: user_rows still to complete
     all_profiles |-> <<>>,        \* find_all_except: profiles
     matches |-> <<>>, mi |-> 0,   \* notify_matches: the list and the loop position
     response |-> "none",          \* interaction.response.send_message
     log |-> <<>>,                 \* history: what this run did (skips, calls, saves, DMs)
     it_size |-> 0, it_pos |-> 0,  \* the dict iterator of bot.py:194
     examined |-> [u \in {"u1", "u2", "bot"} |-> 0],  \* history: how many of the fragments recorded for
                                   \* each identity were in its list when this run read it
     lost |-> {},                  \* history: the identities whose list held, at the clear,
                                   \* fragments recorded after this run had read it
     messages |-> <<>>]            \* the list `messages` is bound to, once it is no longer the dict's

\* the values the commands are invoked with
CategoryInputs == {"Games", "music"}
Items == {"Chess", "chess", "Go"}
\* message.content of the messages of Spec, as character counts
MsgLens == {40}

Event(kind, who, detail) == <<kind, who, detail>>

StoredProfile(u) ==
    UserProfile(u, db_items[u]["games"], db_items[u]["artists"], db_items[u]["interests"],
                db_users[u].scanning_enabled, u)

HasDuplicates(q) == \E i, j \in 1..Len(q) : i < j /\ q[i] = q[j]

\* a removal that matches whatever the case
CanRemoveAnyCase(category_list, interest) ==
    \E i \in 1..Len(category_list) : Lower(category_list[i]) = Lower(interest)

\* bot.py:129-133: list.remove(x) raises ValueError unless an element equals x
CanRemove(category_list, interest) == interest \in Range(category_list)

\* list.remove(x): the first element equal to x
RECURSIVE RemoveFirst(_, _)
RemoveFirst(q, x) ==
    IF q = <<>> THEN <<>>
    ELSE IF q[1] = x THEN Tail(q)
    ELSE <<q[1]>> \o RemoveFirst(Tail(q), x)

(***************************************************************************)
(* bot.py:68-70 and bot.py:225-227, the dedup-insert: append unless an     *)
(* item equal under lower() is in the list.                                *)
(***************************************************************************)
\* the dedup test without lower()
IsPresentExact(category_list, interest) == interest \in Range(category_list)

IsPresent(category_list, interest) ==
    Lower(interest) \in Range(LowerAll(category_list))

\* bot.py:224-227, the inner loop over new_interests
RECURSIVE MergeList(_, _)
MergeList(current_list, new_interests) ==
    IF new_interests = <<>> THEN current_list
    ELSE MergeList(IF IsPresent(current_list, new_interests[1])
                   THEN current_list
                   ELSE Append(current_list, new_interests[1]),
                   Tail(new_interests))

\* bot.py:221-227, the loop over extracted.items()
MergeExtracted(profile, extracted) ==
    [profile EXCEPT !.games = MergeList(@, extracted.games),
                    !.artists = MergeList(@, extracted.artists),
                    !.interests = MergeList(@, extracted.interests)]

(***************************************************************************)
(* llm_analysis.py:45-73. The reply of the inference service is an input.  *)
(* kind "error" is a call that raises or times out, "unparseable" a text   *)
(* json.loads rejects, "not_object" a parsed value without .get; all are   *)
(* caught at line 71. A parsed object gives, per category, a list, no key  *)
(* (absent: .get returns []) or null (null: None[:3] raises TypeError,     *)
(* caught at line 71). The result keeps the first three of each list.      *)
(* A list may hold None, the JSON null, which is no string.                *)
(***************************************************************************)
Reply(g, a, i) ==
    [kind |-> "ok", games |-> g, artists |-> a, interests |-> i, absent |-> {}, null |-> {}]
Failure(kind) ==
    [kind |-> kind, games |-> <<>>, artists |-> <<>>, interests |-> <<>>, absent |-> {}, null |-> {}]

\* the replies of Spec
Replies ==
    { Failure("error"),
      Reply(<<>>, <<>>, <<>>),
      Reply(<<"chess", "Go">>, <<>>, <<>>),
      Reply(<<"Chess", "chess", "Go", "Halo", "Tetris">>, <<"Go">>, <<"Go", "Chess">>),
      Reply(<<None, "Go">>, <<>>, <<>>) }

\* the replies of SpecFn
FnReplies ==
    Replies
    \cup { Failure("unparseable"), Failure("not_object"),
           [Reply(<<"Go">>, <<>>, <<>>) EXCEPT !.absent = {"artists", "interests"}],
           [Reply(<<>>, <<>>, <<>>) EXCEPT !.absent = Categories],
           [Reply(<<"Go", "Chess">>, <<"Go">>, <<>>) EXCEPT !.null = {"interests"}],
           [Reply(<<"Go">>, <<>>, <<>>) EXCEPT !.absent = {"artists"}, !.null = {"interests"}],
           Reply(<<"Go", "Halo", "Tetris", "Chess">>, <<"Halo", "Go", "Chess", "Tetris">>,
                 <<"Tetris", "Halo", "Go">>) }

NoInterests == [games |-> <<>>, artists |-> <<>>, interests |-> <<>>]

\* the result without the cut to three
extract_interests_from_messages_uncut(reply) ==
    IF reply.kind # "ok" \/ reply.null # {}
    THEN NoInterests
    ELSE [games |-> IF "games" \in reply.absent THEN <<>> ELSE reply.games,
          artists |-> IF "artists" \in reply.absent THEN <<>> ELSE reply.artists,
          interests |-> IF "interests" \in reply.absent THEN <<>> ELSE reply.interests]

\* a null category read as an empty list
extract_interests_from_messages_null_as_empty(reply) ==
    IF reply.kind # "ok"
    THEN NoInterests
    ELSE [games |-> IF "games" \in reply.absent \cup reply.null THEN <<>> ELSE Take(reply.games, ExtractCap),
          artists |-> IF "artists" \in reply.absent \cup reply.null THEN <<>> ELSE Take(reply.artists, ExtractCap),
          interests |-> IF "interests" \in reply.absent \cup reply.null THEN <<>>
                        ELSE Take(reply.interests, ExtractCap)]

extract_interests_from_messages(reply) ==
    IF reply.kind # "ok" \/ reply.null # {}
    THEN NoInterests
    ELSE [games |-> IF "games" \in reply.absent THEN <<>> ELSE Take(reply.games, ExtractCap),
          artists |-> IF "artists" \in reply.absent THEN <<>> ELSE Take(reply.artists, ExtractCap),
          interests |-> IF "interests" \in reply.absent THEN <<>> ELSE Take(reply.interests, ExtractCap)]

(***************************************************************************)
(* bot.py:208-230, from the reply to the test of interests_added, which    *)
(* runs without suspension. interest.lower() (line 225) raises on an item  *)
(* that is no string; the exception leaves the try of the iteration.       *)
(***************************************************************************)
MergeRaises(extracted) == \E c \in Categories : None \in Range(extracted[c])

MergeStep(user_id, user_profile, reply) ==
    LET extracted == extract_interests_from_messages(reply)
        p == IF user_profile = NoProfile THEN FreshProfile(user_id) ELSE user_profile[1]
        raised == MergeRaises(extracted)
        merged == MergeExtracted(p, extracted)
    IN  [extracted |-> extracted,
         raised |-> raised,
         user_profile |-> IF raised THEN p ELSE merged,
         interests_added |-> ~raised /\ merged # p]

(***************************************************************************)
(* bot.py:194 and 248. `for user_id, messages in user_messages.items()`:   *)
(* the iterator walks the keys in insertion order and raises RuntimeError  *)
(* when the dict has changed size; the error is raised outside the try,    *)
(* so it ends the task. When the keys are exhausted the buffer is cleared. *)
(* The code from the end of one iteration to the first await of the next   *)
(* runs without suspension.                                                *)
(***************************************************************************)
Advance(c) ==
    IF Len(um_order) # c.it_size THEN [c EXCEPT !.pc = "crashed"]
    ELSE IF c.it_pos >= Len(um_order) THEN [c EXCEPT !.pc = "cleared"]
    ELSE [c EXCEPT !.pc = "find_user", !.it_pos = @ + 1, !.user = um_order[c.it_pos + 1],
                   !.user_profile = NoProfile, !.loaded = NoProfile, !.messages = <<>>,
                   !.guild = None, !.all_profiles = <<>>, !.matches = <<>>, !.mi = 0]

\* a handler that has returned: its locals are gone, what it did is kept as history
Returned(tk) ==
    [tk EXCEPT !.user_row = NoProfile, !.rows = <<>>, !.all_profiles = <<>>,
               !.matches = <<>>, !.mi = 0]

\* the fragments recorded for u that the run c had in the list it read
Unread(c, u) == Len(recorded[u]) - c.examined[u]

\* a cycle that returns without the clear of bot.py:248
Commit_without_clear(t, nt) ==
    LET fin == IF nt.pc = "iter_end" THEN Advance(nt) ELSE nt
    IN  IF fin.pc = "cleared"
        THEN /\ tasks' = [tasks EXCEPT ![t] = [IdleTask EXCEPT !.cmd = fin.cmd, !.log = fin.log]]
             /\ UNCHANGED <<user_messages, um_order, recorded>>
        ELSE /\ tasks' = [tasks EXCEPT ![t] = IF fin.pc = "done" THEN Returned(fin) ELSE fin]
             /\ UNCHANGED <<user_messages, um_order, recorded>>

\* the task t continues as nt; a cycle at the end of an iteration advances
Commit(t, nt) ==
    LET fin == IF nt.pc = "iter_end" THEN Advance(nt) ELSE nt
    IN  IF fin.pc = "cleared"
        THEN /\ tasks' = [tasks EXCEPT ![t] =
                    [IdleTask EXCEPT !.cmd = fin.cmd, !.log = fin.log,
                                     !.lost = {u \in Users : Unread(fin, u) > 0}]]
             /\ user_messages' = [u \in Authors |-> <<>>]
             /\ um_order' = <<>>
             /\ recorded' = [u \in Authors |-> <<>>]
        ELSE /\ tasks' = [tasks EXCEPT ![t] = IF fin.pc = "done" THEN Returned(fin) ELSE fin]
             /\ UNCHANGED <<user_messages, um_order, recorded>>

\* the list the loop variable `messages` of bot.py:194 refers to
BoundMessages(tk) ==
    IF tk.messages = <<>> THEN user_messages[tk.user] ELSE tk.messages[1]

(***************************************************************************)
(* What each handler does, without suspension, once find_by_discord_id has *)
(* returned `found`: bot.py:59-71, 84-96, 102-114, 124-134, 199-208.       *)
(***************************************************************************)
\* a gate that lets every profile through
ScanningDisabledNever(found) == FALSE

\* bot.py:200: user_profile and not user_profile.scanning_enabled
ScanningDisabled(found) == found # NoProfile /\ ~found[1].scanning_enabled

AfterFind(tk, found) ==
    LET base == [tk EXCEPT !.loaded = found, !.user_profile = found, !.user_row = NoProfile]
        cat == Lower(tk.category)
        p == IF found = NoProfile THEN FreshProfile(tk.user) ELSE found[1]
        \* the iteration reads `messages` here, and never again
        read == [base EXCEPT !.examined[tk.user] =
                    IF tk.messages = <<>> THEN Len(recorded[tk.user]) ELSE @]
    IN  CASE tk.cmd = "add_interest" ->
               IF ~IsPresent(p[cat], tk.interest)
               THEN [base EXCEPT !.user_profile = Some([p EXCEPT ![cat] = Append(@, tk.interest)]),
                                 !.pc = "save"]
               ELSE [base EXCEPT !.user_profile = Some(p), !.response = "already", !.pc = "done"]
          [] tk.cmd = "remove_interest" ->
               IF found = NoProfile
               THEN [base EXCEPT !.response = "no_profile", !.pc = "done"]
               ELSE IF CanRemove(p[cat], tk.interest)
                    THEN [base EXCEPT !.user_profile = Some([p EXCEPT ![cat] = RemoveFirst(@, tk.interest)]),
                                      !.pc = "save"]
                    ELSE [base EXCEPT !.response = "not_found", !.pc = "done"]
          [] tk.cmd = "disable_scanning" ->
               [base EXCEPT !.user_profile = Some([p EXCEPT !.scanning_enabled = FALSE]), !.pc = "save"]
          [] tk.cmd = "enable_scanning" ->
               [base EXCEPT !.user_profile = Some([p EXCEPT !.scanning_enabled = TRUE]), !.pc = "save"]
          [] OTHER ->  \* daily_analysis
               IF ScanningDisabled(found)
               THEN [read EXCEPT !.pc = "iter_end",
                                 !.log = Append(@, Event("skip", tk.user,
                                            IF should_process_messages(BoundMessages(tk))
                                            THEN "processable" ELSE "short"))]
               ELSE IF ~should_process_messages(BoundMessages(tk))
                    THEN [read EXCEPT !.pc = "iter_end"]
                    ELSE [read EXCEPT !.pc = "extract",
                                      !.log = Append(@, Event("extract", tk.user, "call"))]

(***************************************************************************)
(* database.py:17-57, UserProfile.find_by_discord_id: the users row, then  *)
(* one query per category, each a suspension point of its own.             *)
(***************************************************************************)
find_user(t) ==
    /\ tasks[t].pc = "find_user"
    /\ LET tk == tasks[t]
           row == db_users[tk.user]
       IN  IF ~row.exists
           THEN Commit(t, AfterFind(tk, NoProfile))
           ELSE Commit(t, [tk EXCEPT !.pc = "find_games",
                              !.user_row = Some(UserProfile(tk.user, <<>>, <<>>, <<>>,
                                                            row.scanning_enabled, tk.user))])
    /\ UNCHANGED <<db_users, db_items, budget, fn>>

find_category(t) ==
    /\ tasks[t].pc \in {"find_games", "find_artists", "find_interests"}
    /\ LET tk == tasks[t]
           cat == CASE tk.pc = "find_games" -> "games"
                    [] tk.pc = "find_artists" -> "artists"
                    [] OTHER -> "interests"
           got == Some([tk.user_row[1] EXCEPT ![cat] = db_items[tk.user][cat]])
       IN  CASE tk.pc = "find_games" -> Commit(t, [tk EXCEPT !.pc = "find_artists", !.user_row = got])
             [] tk.pc = "find_artists" -> Commit(t, [tk EXCEPT !.pc = "find_interests", !.user_row = got])
             [] OTHER -> Commit(t, AfterFind(tk, got))
    /\ UNCHANGED <<db_users, db_items, budget, fn>>

(***************************************************************************)
(* bot.py:73-77 and 234-240: where the handler goes once the profile is    *)
(* saved. The cycle ranks in the first guild of bot.guilds that has the    *)
(* user as a member, then breaks.                                          *)
(***************************************************************************)
FirstGuildOf(u) ==
    LET idx == {i \in 1..Len(GuildOrder) : u \in Members(GuildOrder[i])}
    IN  IF idx = {} THEN None
        ELSE GuildOrder[CHOOSE i \in idx : \A j \in idx : i <= j]

AfterSave(tk) ==
    CASE tk.cmd = "add_interest" -> [tk EXCEPT !.pc = "find_all"]
      [] tk.cmd = "remove_interest" -> [tk EXCEPT !.response = "removed", !.pc = "done"]
      [] tk.cmd = "disable_scanning" -> [tk EXCEPT !.response = "disabled", !.pc = "done"]
      [] tk.cmd = "enable_scanning" -> [tk EXCEPT !.response = "enabled", !.pc = "done"]
      [] OTHER ->
           IF FirstGuildOf(tk.user) = None
           THEN [tk EXCEPT !.pc = "iter_end"]
           ELSE [tk EXCEPT !.pc = "find_all", !.guild = FirstGuildOf(tk.user)]

\* an exception that leaves the loop of the cycle
Raised_out_of_loop(tk) ==
    IF tk.cmd = "daily_analysis"
    THEN [tk EXCEPT !.pc = "crashed"]
    ELSE [tk EXCEPT !.response = "error", !.pc = "done"]

\* an exception leaves a command without a response; the cycle's try catches it (bot.py:244)
Raised(tk) ==
    IF tk.cmd = "daily_analysis"
    THEN [tk EXCEPT !.pc = "iter_end"]
    ELSE [tk EXCEPT !.response = "error", !.pc = "done"]

(***************************************************************************)
(* database.py:103-138, UserProfile.save: one transaction. UPDATE when the *)
(* object carries an id, INSERT otherwise; the INSERT violates the UNIQUE  *)
(* constraint on discord_id when the row exists, and a list holding one    *)
(* name twice violates the primary key of the junction table. Writers of   *)
(* one user queue on the row, so the transaction takes effect at once.     *)
(***************************************************************************)
save(t) ==
    /\ tasks[t].pc = "save"
    /\ LET tk == tasks[t]
           p == tk.user_profile[1]
           violation == \/ (p.id = None /\ db_users[p.discord_id].exists)
                        \/ \E c \in Categories : HasDuplicates(p[c])
       IN  IF violation
           THEN /\ Commit(t, Raised([tk EXCEPT !.log = Append(@, Event("save", p.discord_id, "error"))]))
                /\ UNCHANGED <<db_users, db_items, budget>>
           ELSE /\ db_users' = [db_users EXCEPT ![p.discord_id] =
                                    [exists |-> TRUE, scanning_enabled |-> p.scanning_enabled]]
                /\ db_items' = [db_items EXCEPT ![p.discord_id] =
                                    [games |-> p.games, artists |-> p.artists, interests |-> p.interests]]
                /\ Commit(t, AfterSave([tk EXCEPT
                                  !.user_profile = Some([p EXCEPT !.id = p.discord_id]),
                                  !.log = Append(@, Event("save", p.discord_id, "ok"))]))
                /\ budget' = [budget EXCEPT !.stored[p.discord_id] =
                                  @ \cup {[p EXCEPT !.id = p.discord_id]}]
    /\ fn' = fn

(***************************************************************************)
(* bot.py:136-168, notify_matches. Each send is a suspension point whose   *)
(* outcome (delivered, or discord.Forbidden) is an input.                  *)
(***************************************************************************)
AfterNotify(tk) ==
    IF tk.cmd = "daily_analysis"
    THEN [tk EXCEPT !.pc = "iter_end"]
    ELSE [tk EXCEPT !.response = "added", !.pc = "done"]

\* a loop that returns at the first match_user that does not resolve
NotifyLoop_returns(tk, i) ==
    IF i > Len(tk.matches) THEN AfterNotify(tk)
    ELSE IF tk.matches[i][1].discord_id \notin Members(tk.guild) THEN AfterNotify(tk)
    ELSE [tk EXCEPT !.pc = "dm_user", !.mi = i]

\* bot.py:141-144: the next pair from position i whose match_user resolves
RECURSIVE NotifyLoop(_, _)
NotifyLoop(tk, i) ==
    IF i > Len(tk.matches) THEN AfterNotify(tk)
    ELSE IF tk.matches[i][1].discord_id \notin Members(tk.guild) THEN NotifyLoop(tk, i + 1)
    ELSE [tk EXCEPT !.pc = "dm_user", !.mi = i]

notify_matches(tk) ==
    IF tk.user_profile[1].discord_id \notin Members(tk.guild)
    THEN AfterNotify(tk)
    ELSE NotifyLoop(tk, 1)

\* bot.py:136-168 when every send is delivered: the positions in matches of
\* the pairs for which delivery is attempted, from position i on (0: from the call)
RECURSIVE Attempts(_, _)
Attempts(tk, i) ==
    LET nx == IF i = 0 THEN notify_matches(tk) ELSE NotifyLoop(tk, i)
    IN  IF nx.pc = "dm_user" THEN <<nx.mi>> \o Attempts(tk, nx.mi + 1) ELSE <<>>

\* matching.py:24-36 and bot.py:73-75 / 237-239, once find_all_except has returned
AfterFindAll(tk) ==
    LET matches == find_matches(tk.user_profile[1], tk.all_profiles, tk.guild)
        ranked == [tk EXCEPT !.matches = matches,
                             !.log = Append(@, Event("rank", tk.user, tk.guild))]
    IN  IF matches # <<>>
        THEN notify_matches([ranked EXCEPT !.log = Append(@, Event("notify", tk.user, tk.guild))])
        ELSE AfterNotify(ranked)

DmOutcomes == {"ok", "Forbidden"}

dm_user(t) ==
    /\ tasks[t].pc = "dm_user"
    /\ \E outcome \in DmOutcomes :
         LET tk == tasks[t]
             sent == [tk EXCEPT !.log = Append(@, Event("dm", tk.user, outcome))]
         IN  IF outcome = "ok"
             THEN Commit(t, [sent EXCEPT !.pc = "dm_match"])
             ELSE Commit(t, NotifyLoop(sent, tk.mi + 1))
    /\ UNCHANGED <<db_users, db_items, budget, fn>>

dm_match(t) ==
    /\ tasks[t].pc = "dm_match"
    /\ \E outcome \in DmOutcomes :
         LET tk == tasks[t]
             sent == [tk EXCEPT !.log = Append(@, Event("dm", tk.matches[tk.mi][1].discord_id, outcome))]
         IN  Commit(t, NotifyLoop(sent, tk.mi + 1))
    /\ UNCHANGED <<db_users, db_items, budget, fn>>

(***************************************************************************)
(* database.py:59-101, UserProfile.find_all_except: the rows of the other  *)
(* users (in no stated order), then three queries per row.                 *)
(***************************************************************************)
Orderings(S) ==
    {q \in [1..Cardinality(S) -> S] : \A i, j \in 1..Cardinality(S) : i # j => q[i] # q[j]}

find_all_rows(t) ==
    /\ tasks[t].pc = "find_all"
    /\ LET tk == tasks[t]
           others == {u \in Users : u # tk.user_profile[1].discord_id /\ db_users[u].exists}
       IN  \E order \in Orderings(others) :
             LET user_rows == [i \in 1..Len(order) |->
                                 UserProfile(order[i], <<>>, <<>>, <<>>,
                                             db_users[order[i]].scanning_enabled, order[i])]
             IN  IF user_rows = <<>>
                 THEN Commit(t, AfterFindAll([tk EXCEPT !.all_profiles = <<>>, !.rows = <<>>]))
                 ELSE Commit(t, [tk EXCEPT !.pc = "fa_games", !.rows = user_rows, !.all_profiles = <<>>])
    /\ UNCHANGED <<db_users, db_items, budget, fn>>

find_all_category(t) ==
    /\ tasks[t].pc \in {"fa_games", "fa_artists", "fa_interests"}
    /\ LET tk == tasks[t]
           row == tk.rows[1]
           cat == CASE tk.pc = "fa_games" -> "games"
                    [] tk.pc = "fa_artists" -> "artists"
                    [] OTHER -> "interests"
           got == [row EXCEPT ![cat] = db_items[row.discord_id][cat]]
           appended == [tk EXCEPT !.all_profiles = Append(@, got), !.rows = Tail(@)]
       IN  CASE tk.pc = "fa_games" -> Commit(t, [tk EXCEPT !.pc = "fa_artists", !.rows[1] = got])
             [] tk.pc = "fa_artists" -> Commit(t, [tk EXCEPT !.pc = "fa_interests", !.rows[1] = got])
             [] OTHER -> IF appended.rows = <<>>
                         THEN Commit(t, AfterFindAll(appended))
                         ELSE Commit(t, [appended EXCEPT !.pc = "fa_games"])
    /\ UNCHANGED <<db_users, db_items, budget, fn>>

(***************************************************************************)
(* bot.py:208-231: the reply of the inference call arrives; the profile is *)
(* created when absent, the candidates are merged, and the profile is      *)
(* saved only when an item was appended.                                   *)
(***************************************************************************)
extract(t) ==
    /\ tasks[t].pc = "extract"
    /\ \E reply \in Replies :
         LET tk == tasks[t]
             r == MergeStep(tk.user, tk.user_profile, reply)
         IN  IF r.raised
             THEN Commit(t, Raised([tk EXCEPT !.log = Append(@, Event("merge", tk.user, "error"))]))
             ELSE IF r.interests_added
                  THEN Commit(t, [tk EXCEPT !.user_profile = Some(r.user_profile), !.pc = "save",
                                            !.log = Append(@, Event("merge", tk.user, "added"))])
                  ELSE Commit(t, [tk EXCEPT !.user_profile = Some(r.user_profile), !.pc = "iter_end",
                                            !.log = Append(@, Event("merge", tk.user, "nothing"))])
    /\ UNCHANGED <<db_users, db_items, budget, fn>>

(***************************************************************************)
(* The interactive commands, up to their first suspension point. A command *)
(* that reads interaction.guild is invoked in a guild the user is in.      *)
(***************************************************************************)
\* the category test without lower()
ValidCategoryExact(category) == category \in {"games", "artists", "interests"}

\* bot.py:54 and 119
ValidCategory(category) == Lower(category) \in {"games", "artists", "interests"}

Invoke(h, cmd, user, guild, category, interest) ==
    LET tk == [IdleTask EXCEPT !.cmd = cmd, !.user = user, !.guild = guild,
                               !.category = category, !.interest = interest]
    IN  /\ tasks[h].pc \in {"idle", "done"}
        /\ budget.cmds < MaxCmds
        /\ guild # None => user \in Members(guild)
        /\ budget' = [budget EXCEPT !.cmds = @ + 1]
        /\ IF cmd \in {"add_interest", "remove_interest"} /\ ~ValidCategory(category)
           THEN tasks' = [tasks EXCEPT ![h] = [tk EXCEPT !.response = "invalid_category", !.pc = "done"]]
           ELSE tasks' = [tasks EXCEPT ![h] = [tk EXCEPT !.pc = "find_user"]]
        /\ UNCHANGED <<db_users, db_items, user_messages, um_order, recorded, fn>>

\* bot.py:52-58
add_interest(h) ==
    \E user \in Users, guild \in Guilds, category \in CategoryInputs, interest \in Items :
        Invoke(h, "add_interest", user, guild, category, interest)

\* bot.py:117-123 (the guild of the interaction is not read)
remove_interest(h) ==
    \E user \in Users, category \in CategoryInputs, interest \in Items :
        Invoke(h, "remove_interest", user, None, category, interest)

\* bot.py:81-83
disable_scanning(h) ==
    \E user \in Users :
        Invoke(h, "disable_scanning", user, None, None, None)

\* bot.py:99-101
enable_scanning(h) ==
    \E user \in Users :
        Invoke(h, "enable_scanning", user, None, None, None)

(***************************************************************************)
(* bot.py:170-182, on_message. When the list is cut to its last 50 the key *)
(* is bound to a new list; a cycle that holds the old list of this user    *)
(* (it is between the iterator step and its read of `messages`) keeps the  *)
(* old one, with the message appended.                                     *)
(***************************************************************************)
\* the cut keeping the first 50 instead of the last 50
on_message_keep_first(author, content) ==
    IF author = BotUser
    THEN UNCHANGED <<user_messages, um_order, recorded, tasks>>
    ELSE LET appended == Append(user_messages[author], content)
         IN  /\ user_messages' = [user_messages EXCEPT ![author] =
                    IF Len(appended) > BufferCap THEN SubSeq(appended, 1, BufferCap) ELSE appended]
             /\ um_order' = IF user_messages[author] = <<>> THEN Append(um_order, author) ELSE um_order
             /\ recorded' = [recorded EXCEPT ![author] = Append(@, content)]
             /\ tasks' = tasks

\* on_message without the test of message.author.bot
on_message_unfiltered(author, content) ==
    LET appended == Append(user_messages[author], content)
    IN  /\ user_messages' = [user_messages EXCEPT ![author] =
               IF Len(appended) > BufferCap
               THEN SubSeq(appended, Len(appended) - BufferCap + 1, Len(appended))
               ELSE appended]
        /\ um_order' = IF user_messages[author] = <<>> THEN Append(um_order, author) ELSE um_order
        /\ recorded' = [recorded EXCEPT ![author] = Append(@, content)]
        /\ tasks' = tasks

on_message(author, content) ==
    IF author = BotUser
    THEN UNCHANGED <<user_messages, um_order, recorded, tasks>>
    ELSE LET appended == Append(user_messages[author], content)
             cut == Len(appended) > BufferCap
             c == tasks[Cycle]
             holds_old == /\ c.cmd = "daily_analysis"
                          /\ c.pc \in {"find_user", "find_games", "find_artists", "find_interests"}
                          /\ c.user = author
                          /\ c.messages = <<>>
         IN  /\ user_messages' = [user_messages EXCEPT ![author] =
                    IF cut THEN SubSeq(appended, Len(appended) - BufferCap + 1, Len(appended))
                    ELSE appended]
             /\ um_order' = IF user_messages[author] = <<>> THEN Append(um_order, author) ELSE um_order
             /\ recorded' = [recorded EXCEPT ![author] = Append(@, content)]
             /\ tasks' = IF cut /\ holds_old
                         THEN [tasks EXCEPT ![Cycle].messages = Some(appended),
                                            ![Cycle].examined[author] = Len(recorded[author]) + 1]
                         ELSE tasks

\* the messages of Spec
Message ==
    \E author \in Authors, content \in MsgLens :
        /\ author # BotUser => budget.msgs < MaxMsgs
        /\ budget' = IF author = BotUser THEN budget ELSE [budget EXCEPT !.msgs = @ + 1]
        /\ on_message(author, content)
        /\ UNCHANGED <<db_users, db_items, fn>>

(***************************************************************************)
(* bot.py:187-194: a tick of tasks.loop starts the body, which runs to the *)
(* first await of the first iteration, or to the clear when the dict is    *)
(* empty. The loop starts no body while one is running, and none after one *)
(* has ended with an exception.                                            *)
(***************************************************************************)
daily_analysis ==
    /\ tasks[Cycle].pc = "idle"
    /\ Commit(Cycle, [IdleTask EXCEPT !.cmd = "daily_analysis", !.pc = "iter_end",
                                      !.it_size = Len(um_order), !.it_pos = 0])
    /\ UNCHANGED <<db_users, db_items, budget, fn>>

(***************************************************************************)
(* The bot with its commands, messages and cycle.                          *)
(***************************************************************************)
NoFn == [op |-> "none"]

InitBot ==
    /\ db_users = [u \in Authors |-> [exists |-> FALSE, scanning_enabled |-> TRUE]]
    /\ db_items = [u \in Authors |-> [games |-> <<>>, artists |-> <<>>, interests |-> <<>>]]
    /\ user_messages = [u \in Authors |-> <<>>]
    /\ um_order = <<>>
    /\ tasks = [t \in Tasks |-> IdleTask]
    /\ recorded = [u \in Authors |-> <<>>]
    /\ budget = [cmds |-> 0, msgs |-> 0, stored |-> [u \in Authors |-> {}]]

Init ==
    /\ InitBot
    /\ fn = NoFn

Next ==
    \/ \E h \in Handlers : add_interest(h)
    \/ \E h \in Handlers : remove_interest(h)
    \/ \E h \in Handlers : disable_scanning(h)
    \/ \E h \in Handlers : enable_scanning(h)
    \/ \E t \in Tasks : find_user(t)
    \/ \E t \in Tasks : find_category(t)
    \/ \E t \in Tasks : save(t)
    \/ \E t \in Tasks : find_all_rows(t)
    \/ \E t \in Tasks : find_all_category(t)
    \/ \E t \in Tasks : dm_user(t)
    \/ \E t \in Tasks : dm_match(t)
    \/ extract(Cycle)
    \/ Message
    \/ daily_analysis

Spec == Init /\ [][Next]_vars

(***************************************************************************)
(* SpecLive: every call the cycle awaits (a query, the inference call, a   *)
(* direct message) returns or raises in the end, so a step of the cycle    *)
(* that can be taken is taken.                                             *)
(***************************************************************************)
CycleStep ==
    \/ find_user(Cycle)
    \/ find_category(Cycle)
    \/ extract(Cycle)
    \/ save(Cycle)
    \/ find_all_rows(Cycle)
    \/ find_all_category(Cycle)
    \/ dm_user(Cycle)
    \/ dm_match(Cycle)

SpecLive == Init /\ [][Next]_vars /\ WF_vars(CycleStep)

(***************************************************************************)
(* SpecBuf: the message buffer at its real capacity. One identity and the  *)
(* bot write messages, the k-th message being k characters long, so that   *)
(* every fragment is told from every other; the cycle runs as in Spec.     *)
(***************************************************************************)
BufMessage ==
    \E author \in {"u1", BotUser} :
        /\ author # BotUser => budget.msgs < MaxBufMsgs
        /\ budget' = IF author = BotUser THEN budget ELSE [budget EXCEPT !.msgs = @ + 1]
        /\ on_message(author, budget.msgs + 1)
        /\ UNCHANGED <<db_users, db_items, fn>>

NextBuf ==
    \/ BufMessage
    \/ daily_analysis
    \/ find_user(Cycle)
    \/ find_category(Cycle)
    \/ extract(Cycle)
    \/ save(Cycle)
    \/ find_all_rows(Cycle)

SpecBuf == Init /\ [][NextBuf]_vars

(***************************************************************************)
(* SpecCycle: the cycle over a buffer in which both identities have enough *)
(* fragments to be analysed, next to the commands; no message arrives.     *)
(***************************************************************************)
InitCycle ==
    /\ db_users = [u \in Authors |-> [exists |-> FALSE, scanning_enabled |-> TRUE]]
    /\ db_items = [u \in Authors |-> NoInterests]
    /\ user_messages = [u \in Authors |-> IF u \in Users THEN <<40, 40, 40>> ELSE <<>>]
    /\ um_order \in Orderings(Users)
    /\ tasks = [t \in Tasks |-> IdleTask]
    /\ recorded = user_messages
    /\ budget = [cmds |-> 0, msgs |-> 6, stored |-> [u \in Authors |-> {}]]
    /\ fn = NoFn

NextCycle ==
    \/ \E h \in Handlers : add_interest(h)
    \/ \E h \in Handlers : remove_interest(h)
    \/ \E h \in Handlers : disable_scanning(h)
    \/ \E h \in Handlers : enable_scanning(h)
    \/ \E t \in Tasks : find_user(t)
    \/ \E t \in Tasks : find_category(t)
    \/ \E t \in Tasks : save(t)
    \/ \E t \in Tasks : find_all_rows(t)
    \/ \E t \in Tasks : find_all_category(t)
    \/ \E t \in Tasks : dm_user(t)
    \/ \E t \in Tasks : dm_match(t)
    \/ extract(Cycle)
    \/ daily_analysis

SpecCycle == InitCycle /\ [][NextCycle]_vars

(***************************************************************************)
(* SpecStore: the commands next to a cycle over a store that holds a       *)
(* profile for each identity; u1 has enough fragments to be analysed.      *)
(***************************************************************************)
InitStore ==
    /\ db_users = [u \in Authors |-> [exists |-> u \in Users, scanning_enabled |-> TRUE]]
    /\ db_items = [u \in Authors |->
                      CASE u = "u1" -> [NoInterests EXCEPT !.games = <<"Chess">>]
                        [] u = "u2" -> [NoInterests EXCEPT !.games = <<"Go">>]
                        [] OTHER -> NoInterests]
    /\ user_messages = [u \in Authors |-> IF u = "u1" THEN <<40, 40, 40>> ELSE <<>>]
    /\ um_order = <<"u1">>
    /\ tasks = [t \in Tasks |-> IdleTask]
    /\ recorded = user_messages
    /\ budget = [cmds |-> 0, msgs |-> 3,
                 stored |-> [u \in Authors |-> IF u \in Users THEN {StoredProfile(u)} ELSE {}]]
    /\ fn = NoFn

SpecStore == InitStore /\ [][NextCycle]_vars

(***************************************************************************)
(* SpecBot: the messages of the users and of the bot itself, each one      *)
(* kept in fn as the last event, next to the cycle.                        *)
(***************************************************************************)
Chat ==
    \E author \in Authors, content \in MsgLens :
        /\ budget.msgs < MaxChat
        /\ budget' = [budget EXCEPT !.msgs = @ + 1]
        /\ on_message(author, content)
        /\ fn' = [op |-> "on_message", args |-> <<author, content>>, out |-> <<>>]
        /\ UNCHANGED <<db_users, db_items>>

NextBot ==
    \/ Chat
    \/ daily_analysis
    \/ find_user(Cycle)
    \/ find_category(Cycle)
    \/ extract(Cycle)
    \/ save(Cycle)
    \/ find_all_rows(Cycle)

SpecBot == Init /\ [][NextBot]_vars

(***************************************************************************)
(* SpecFn: the pure functions on enumerated arguments.                     *)
(***************************************************************************)
SeqsUpTo(S, n) == UNION {[1..k -> S] : k \in 0..n}

\* profiles for calculate_similarity: every combination of these lists
SimGames ==
    {<<>>, <<"Chess">>, <<"chess">>, <<"Go">>, <<"chess", "Go">>, <<"Go", "Chess">>, <<"Chess", "chess">>}
SimArtists == {<<>>, <<"Go">>}
SimInterests == {<<>>, <<"Chess">>}
SimProfiles ==
    {UserProfile("s", g, a, i, TRUE, "s") : g \in SimGames, a \in SimArtists, i \in SimInterests}

\* profiles for find_matches: the subject holds 20 games, a candidate of kind
\* c holds 20 games of which c are the subject's, which scores c/20
ItemNames ==
    <<"i1", "i2", "i3", "i4", "i5", "i6", "i7", "i8", "i9", "i10",
      "i11", "i12", "i13", "i14", "i15", "i16", "i17", "i18", "i19", "i20",
      "i21", "i22", "i23", "i24", "i25", "i26", "i27", "i28", "i29", "i30",
      "i31", "i32", "i33", "i34", "i35", "i36", "i37", "i38", "i39", "i40">>
RankSubject == UserProfile("s", SubSeq(ItemNames, 1, 20), <<>>, <<>>, TRUE, "s")
EmptySubject == UserProfile("s", <<>>, <<>>, <<>>, TRUE, "s")
RankIds == <<"c1", "c2", "c3", "c4", "c5", "c6", "c7", "c8">>
\* kind 0 is the profile without items; 2, 6, 7, 18, 10 score 0.1, 0.3, 0.35, 0.9, 0.5
RankKinds == {2, 6, 7, 10, 18}
\* the kinds of the lists longer than the five that find_matches returns
LongKinds == {2, 6, 18}
Candidate(id, c) ==
    IF c = 0 THEN UserProfile(id, <<>>, <<>>, <<>>, TRUE, id)
    ELSE UserProfile(id, SubSeq(ItemNames, 1, c) \o SubSeq(ItemNames, 21, 40 - c), <<>>, <<>>, TRUE, id)
Candidates(kinds) == [i \in 1..Len(kinds) |-> Candidate(RankIds[i], kinds[i])]

\* message lists for should_process_messages
FragLens == {10, 20, 30, 250}

FnCall(op, args) == [op |-> op, args |-> args, out |-> <<>>]

\* the calls of SpecFn: every candidate is a member of g3, c2 is none of g4,
\* the subject is none of g5
FnInputs(maxCand, maxFrags) ==
    {FnCall("calculate_similarity", <<a, b>>) : a \in SimProfiles, b \in SimProfiles}
    \cup {FnCall("find_matches", <<RankSubject, Candidates(k), "g3">>) : k \in SeqsUpTo(RankKinds, TopN)}
    \cup {FnCall("find_matches", <<RankSubject, Candidates(k), "g3">>) : k \in SeqsUpTo(LongKinds, maxCand)}
    \cup {FnCall("find_matches", <<subject, Candidates(k), guild>>) :
            subject \in {RankSubject, EmptySubject}, guild \in {"g3", "g4"},
            k \in SeqsUpTo(RankKinds \cup {0}, 2)}
    \cup {FnCall("should_process_messages", <<m>>) : m \in SeqsUpTo(FragLens, maxFrags)}
    \cup {FnCall("notify_matches", <<RankSubject, find_matches(RankSubject, Candidates(k), "g3"), guild>>) :
            k \in SeqsUpTo({6, 18}, 3), guild \in {"g3", "g4", "g5"}}
    \cup {FnCall("extract_interests_from_messages", <<reply, profile>>) :
            reply \in FnReplies, profile \in {NoProfile} \cup {Some(q) : q \in SimProfiles}}

InitFn ==
    /\ InitBot
    /\ fn \in FnInputs(MaxCand, MaxFrags)

call_calculate_similarity ==
    /\ fn.op = "calculate_similarity" /\ fn.out = <<>>
    /\ fn' = [fn EXCEPT !.out = Some(calculate_similarity(fn.args[1], fn.args[2]))]
    /\ UNCHANGED <<db_users, db_items, user_messages, um_order, tasks, recorded, budget>>

call_find_matches ==
    /\ fn.op = "find_matches" /\ fn.out = <<>>
    /\ fn' = [fn EXCEPT !.out = Some(find_matches(fn.args[1], fn.args[2], fn.args[3]))]
    /\ UNCHANGED <<db_users, db_items, user_messages, um_order, tasks, recorded, budget>>

call_should_process_messages ==
    /\ fn.op = "should_process_messages" /\ fn.out = <<>>
    /\ fn' = [fn EXCEPT !.out = Some(should_process_messages(fn.args[1]))]
    /\ UNCHANGED <<db_users, db_items, user_messages, um_order, tasks, recorded, budget>>

\* bot.py:208-230 on the reply fn.args[1] and the looked-up profile fn.args[2]
call_extract_interests_from_messages ==
    /\ fn.op = "extract_interests_from_messages" /\ fn.out = <<>>
    /\ fn' = [fn EXCEPT !.out = Some(MergeStep("s", fn.args[2], fn.args[1]))]
    /\ UNCHANGED <<db_users, db_items, user_messages, um_order, tasks, recorded, budget>>

\* bot.py:136-168 on the profile fn.args[1], the matches fn.args[2] and the guild fn.args[3]
call_notify_matches ==
    /\ fn.op = "notify_matches" /\ fn.out = <<>>
    /\ fn' = [fn EXCEPT !.out =
                 Some(Attempts([IdleTask EXCEPT !.cmd = "add_interest", !.pc = "find_all",
                                                !.user = fn.args[1].discord_id,
                                                !.user_profile = Some(fn.args[1]),
                                                !.matches = fn.args[2],
                                                !.guild = fn.args[3]], 0))]
    /\ UNCHANGED <<db_users, db_items, user_messages, um_order, tasks, recorded, budget>>

NextFn ==
    \/ call_notify_matches
    \/ call_extract_interests_from_messages
    \/ call_calculate_similarity
    \/ call_find_matches
    \/ call_should_process_messages

SpecFn == InitFn /\ [][NextFn]_vars

(***************************************************************************)
(* The claims.                                                             *)
(***************************************************************************)
SameIgnoringCase(x, y) == Lower(x) = Lower(y)
HasEvent(log, kind, who, detail) == \E i \in 1..Len(log) : log[i] = Event(kind, who, detail)

\* C1: in every reachable state, whatever the interleaving of commands, messages
\* and cycles, no stored category holds two items equal under case-insensitive
\* comparison.
C1_CategoryDedup ==
    \A u \in Users, c \in Categories :
        \A i, j \in 1..Len(db_items[u][c]) :
            i # j => ~SameIgnoringCase(db_items[u][c][i], db_items[u][c][j])

\* a command stored "Chess", then a cycle whose reply held "chess" and "Go" saved the profile
C1_Witness ==
    \E u \in Users :
        /\ db_items[u]["games"] = <<"Chess", "Go">>
        /\ HasEvent(tasks[Cycle].log, "save", u, "ok")
        /\ \E h \in Handlers : tasks[h].cmd = "add_interest" /\ tasks[h].response = "added"

\* C2: an add_interest whose item is in the loaded category under case-insensitive
\* comparison answers "already", leaves the in-memory profile as loaded (same
\* length, contents and casing) and performs no save, no rank and no notification.
C2_AddPresentIsNoOp ==
    \A h \in Handlers :
        LET tk == tasks[h]
        IN  ( /\ tk.cmd = "add_interest"
              /\ Lower(tk.category) \in Categories
              /\ tk.loaded # NoProfile
              /\ \E i \in 1..Len(tk.loaded[1][Lower(tk.category)]) :
                    SameIgnoringCase(tk.loaded[1][Lower(tk.category)][i], tk.interest) )
            => ( /\ tk.pc = "done"
                 /\ tk.response = "already"
                 /\ tk.user_profile = tk.loaded
                 /\ tk.log = <<>> )

\* "Chess" added to a profile that holds "chess"
C2_Witness ==
    \E h \in Handlers :
        /\ tasks[h].cmd = "add_interest" /\ tasks[h].pc = "done"
        /\ tasks[h].interest = "Chess"
        /\ tasks[h].loaded # NoProfile
        /\ tasks[h].loaded[1]["games"] = <<"chess", "Go">>
        /\ tasks[h].response = "already"
        /\ db_items[tasks[h].user]["games"] = <<"chess", "Go">>

\* C3: a returned remove_interest has removed the item exactly when the loaded
\* category held the given string itself: then it saved the category without the
\* first such item; with no profile, or no item equal to the string (one that
\* differs in case included), it reports so and saves nothing.
C3_RemoveExact ==
    \A h \in Handlers :
        LET tk == tasks[h]
            cat == Lower(tk.category)
        IN  (tk.cmd = "remove_interest" /\ Lower(tk.category) \in Categories /\ tk.pc = "done")
            => IF tk.loaded = NoProfile
               THEN tk.response = "no_profile" /\ tk.log = <<>> /\ tk.user_profile = NoProfile
               ELSE IF \E i \in 1..Len(tk.loaded[1][cat]) : tk.loaded[1][cat][i] = tk.interest
                    THEN /\ tk.response = "removed"
                         /\ tk.log = <<Event("save", tk.user, "ok")>>
                         /\ Len(tk.user_profile[1][cat]) = Len(tk.loaded[1][cat]) - 1
                         /\ \A i \in 1..Len(tk.user_profile[1][cat]) :
                                tk.user_profile[1][cat][i] # tk.interest
                         /\ \A c \in Categories \ {cat} : tk.user_profile[1][c] = tk.loaded[1][c]
                    ELSE /\ tk.response = "not_found"
                         /\ tk.log = <<>>
                         /\ tk.user_profile = tk.loaded

\* "Chess" removed from a profile that holds "chess": reported, nothing saved
C3_Witness ==
    \E h \in Handlers :
        /\ tasks[h].cmd = "remove_interest" /\ tasks[h].pc = "done"
        /\ tasks[h].interest = "Chess"
        /\ tasks[h].loaded # NoProfile
        /\ tasks[h].loaded[1]["games"] = <<"chess", "Go">>
        /\ tasks[h].response = "not_found"
        /\ db_items[tasks[h].user]["games"] = <<"chess", "Go">>

\* C4: an add_interest or remove_interest whose category, lowered, is none of
\* games, artists, interests is answered with the error and does nothing else: no
\* lookup, no profile, no save, no rank, no notification; a category that is one
\* of the three when lowered is not answered with that error.
C4_InvalidCategory ==
    \A h \in Handlers :
        LET tk == tasks[h]
        IN  tk.cmd \in {"add_interest", "remove_interest"}
            => IF Lower(tk.category) \in Categories
               THEN tk.response # "invalid_category"
               ELSE /\ tk.pc = "done"
                    /\ tk.response = "invalid_category"
                    /\ tk.loaded = NoProfile
                    /\ tk.user_profile = NoProfile
                    /\ tk.log = <<>>

\* the category "music" given while the user has a stored profile
C4_Witness ==
    \E h \in Handlers :
        /\ tasks[h].cmd = "add_interest" /\ tasks[h].category = "music"
        /\ tasks[h].response = "invalid_category"
        /\ db_users[tasks[h].user].exists

\* C5: whenever one stored profile is games = [Chess] and another is
\* games = [chess, Go], their other categories empty, the score of the two is 2/3
\* (the common items counted by case-insensitive intersection).
C5_CaseInsensitiveScore ==
    \A a, b \in Users :
        ( /\ db_users[a].exists /\ db_users[b].exists
          /\ db_items[a] = [games |-> <<"Chess">>, artists |-> <<>>, interests |-> <<>>]
          /\ db_items[b] = [games |-> <<"chess", "Go">>, artists |-> <<>>, interests |-> <<>>] )
        => ScoreEq(calculate_similarity(StoredProfile(a), StoredProfile(b)), <<2, 3>>)

Total(profile) == Len(profile.games) + Len(profile.artists) + Len(profile.interests)
Dedup(profile) ==
    \A c \in Categories : \A i, j \in 1..Len(profile[c]) :
        i # j => ~SameIgnoringCase(profile[c][i], profile[c][j])
Returned_fn(op) == fn.op = op /\ fn.out # <<>>

\* C6: for two profiles that satisfy the dedup invariant the score lies in [0, 1]
\* and is the score of the two profiles taken in the other order.
C6_ScoreBoundsSymmetric ==
    (Returned_fn("calculate_similarity") /\ Dedup(fn.args[1]) /\ Dedup(fn.args[2]))
    => LET score == fn.out[1]
       IN  /\ score[2] > 0
           /\ 0 <= score[1] /\ score[1] <= score[2]
           /\ ScoreEq(score, calculate_similarity(fn.args[2], fn.args[1]))

\* profiles of one and of two items with one item in common: 2/3
C6_Witness ==
    /\ Returned_fn("calculate_similarity")
    /\ Total(fn.args[1]) = 1 /\ Total(fn.args[2]) = 2
    /\ fn.out[1][1] * 3 = fn.out[1][2] * 2

\* C7: the score is 0 when either profile has no item; find_matches, with its
\* threshold of 0.3, returns no candidate without items, and returns nothing for
\* a subject without items.
C7_EmptyProfile ==
    /\ (Returned_fn("calculate_similarity") /\ (Total(fn.args[1]) = 0 \/ Total(fn.args[2]) = 0))
       => fn.out[1][1] = 0
    /\ Returned_fn("find_matches")
       => /\ \A i \in 1..Len(fn.out[1]) : Total(fn.out[1][i][1]) > 0
          /\ Total(fn.args[1]) = 0 => fn.out[1] = <<>>

\* a member candidate without items next to one that matches
C7_Witness ==
    /\ Returned_fn("find_matches")
    /\ Len(fn.args[2]) = 2
    /\ Total(fn.args[2][2]) = 0 /\ fn.args[2][2].discord_id \in Members(fn.args[3])
    /\ Len(fn.out[1]) = 1

\* C8: find_matches returns the member candidates whose score is at least 3/10,
\* each with its score, highest score first, and only the 5 highest of them; the
\* candidates scoring 0.1, 0.3, 0.35, 0.9, 0.5 give 0.9, 0.5, 0.35, 0.3.
C8_FindMatches ==
    Returned_fn("find_matches")
    => LET subject == fn.args[1]
           candidates == fn.args[2]
           result == fn.out[1]
           score(i) == calculate_similarity(subject, candidates[i])
           Qualifying == {i \in 1..Len(candidates) :
                            /\ candidates[i].discord_id \in Members(fn.args[3])
                            /\ 10 * score(i)[1] >= 3 * score(i)[2]}
           Returns(i) == \E k \in 1..Len(result) : result[k][1] = candidates[i]
       IN  /\ \A k \in 1..Len(result) :
                \E i \in Qualifying : result[k] = <<candidates[i], score(i)>>
           /\ \A k, l \in 1..Len(result) : k < l => ScoreGeq(result[k][2], result[l][2])
           /\ Len(result) = IF Cardinality(Qualifying) < 5 THEN Cardinality(Qualifying) ELSE 5
           /\ \A i \in Qualifying : \A k \in 1..Len(result) :
                ~Returns(i) => ScoreGeq(result[k][2], score(i))
           /\ (candidates = Candidates(<<2, 6, 7, 18, 10>>) /\ fn.args[3] = "g3")
              => result = << <<candidates[4], <<36, 40>> >>, <<candidates[5], <<20, 40>> >>,
                             <<candidates[3], <<14, 40>> >>, <<candidates[2], <<12, 40>> >> >>

\* the candidates scoring 0.1, 0.3, 0.35, 0.9, 0.5, ranked
C8_Witness ==
    /\ Returned_fn("find_matches")
    /\ fn.args[2] = Candidates(<<2, 6, 7, 18, 10>>) /\ fn.args[3] = "g3"
    /\ Len(fn.out[1]) = 4

\* C9: every identity's buffer holds at most 50 fragments, and they are the
\* last 50 (or all, when fewer) recorded for it since the last clear, in the
\* order of arrival.
C9_BufferBound ==
    \A u \in Users :
        LET n == Len(recorded[u])
        IN  /\ Len(user_messages[u]) <= 50
            /\ user_messages[u] = IF n <= 50 THEN recorded[u] ELSE SubSeq(recorded[u], n - 49, n)

\* the 51st fragment of an identity is recorded
C9_Witness ==
    /\ Len(recorded["u1"]) = 51
    /\ Len(user_messages["u1"]) = 50
    /\ user_messages["u1"][50] = recorded["u1"][51]

\* C10: should_process_messages is true exactly when there are at least 3
\* fragments whose lengths sum to more than 100.
C10_ShouldProcess ==
    Returned_fn("should_process_messages")
    => LET messages == fn.args[1]
           answer == fn.out[1]
       IN  /\ answer = (Len(messages) >= 3 /\ SumLen(messages) > 100)
           /\ messages = <<250, 250>> => answer = FALSE
           /\ messages = <<10, 10, 10, 10, 10>> => answer = FALSE
           /\ messages = <<20, 20, 20, 20, 20>> => answer = FALSE
           /\ messages = <<30, 30, 30, 30, 30>> => answer = TRUE

\* five fragments of exactly 100 characters in all
C10_Witness ==
    /\ Returned_fn("should_process_messages")
    /\ fn.args[1] = <<20, 20, 20, 20, 20>>
    /\ fn.out[1] = FALSE

\* the profile the merge of bot.py:221-227 starts from
MergeBase == IF fn.args[2] = NoProfile THEN FreshProfile("s") ELSE fn.args[2][1]
IsPrefix(q, r) == Len(q) <= Len(r) /\ \A k \in 1..Len(q) : q[k] = r[k]

\* C11: whatever the reply, the result of extract_interests_from_messages holds at
\* most 3 items per category, the first 3 of the reply's list in order (5 games
\* give exactly the first 3), and the merge that follows appends at most 3 items
\* to any category of the profile.
C11_ExtractionCap ==
    Returned_fn("extract_interests_from_messages")
    => LET reply == fn.args[1]
           out == fn.out[1]
       IN  /\ \A c \in Categories : Len(out.extracted[c]) <= 3
           /\ (reply.kind = "ok" /\ reply.null = {})
              => \A c \in Categories \ reply.absent :
                    /\ IsPrefix(out.extracted[c], reply[c])
                    /\ Len(out.extracted[c]) = IF Len(reply[c]) < 3 THEN Len(reply[c]) ELSE 3
           /\ reply.games = <<"Chess", "chess", "Go", "Halo", "Tetris">>
              => out.extracted.games = <<"Chess", "chess", "Go">>
           /\ \A c \in Categories :
                 /\ IsPrefix(MergeBase[c], out.user_profile[c])
                 /\ Len(out.user_profile[c]) <= Len(MergeBase[c]) + 3

\* a reply of 5 games, cut to 3, merged into a profile that had no games
C11_Witness ==
    /\ Returned_fn("extract_interests_from_messages")
    /\ Len(fn.args[1].games) = 5
    /\ Len(fn.out[1].extracted.games) = 3
    /\ MergeBase.games = <<>>
    /\ fn.out[1].user_profile.games = <<"Chess", "Go">>
    /\ fn.out[1].interests_added

\* C12: for every outcome of the external call the result has exactly the keys
\* games, artists, interests; when the call raised, the text did not parse, the
\* parsed value was no object or a category was null, all three are empty, and
\* then the merge changes nothing and asks for no save (so no rank follows).
C12_ExtractionNeverFails ==
    Returned_fn("extract_interests_from_messages")
    => LET reply == fn.args[1]
           out == fn.out[1]
       IN  /\ DOMAIN out.extracted = Categories
           /\ (reply.kind # "ok" \/ reply.null # {})
              => /\ \A c \in Categories : out.extracted[c] = <<>>
                 /\ ~out.raised
                 /\ ~out.interests_added
                 /\ out.user_profile = MergeBase
           /\ (reply.kind = "ok" /\ reply.null = {})
              => \A c \in reply.absent : out.extracted[c] = <<>>

\* a reply whose games are a list and whose interests are null, for a stored profile
C12_Witness ==
    /\ Returned_fn("extract_interests_from_messages")
    /\ fn.args[1].kind = "ok" /\ fn.args[1].null = {"interests"}
    /\ fn.args[1].games = <<"Go", "Chess">>
    /\ fn.args[2] # NoProfile /\ fn.args[2][1].games = <<"Chess">>
    /\ fn.out[1].extracted = NoInterests
    /\ ~fn.out[1].interests_added

\* the states of the cycle between the gate of bot.py:200-205 and the end of the iteration
PastGate ==
    {"extract", "save", "find_all", "fa_games", "fa_artists", "fa_interests", "dm_user", "dm_match"}

\* C13: an identity whose profile the cycle found with scanning disabled is
\* skipped: the cycle is never past the gate for it, and the run holds no
\* extraction call and no save for it, however many fragments it has buffered.
C13_ScanningGate ==
    LET c == tasks[Cycle]
    IN  /\ (c.cmd = "daily_analysis" /\ c.pc \in PastGate)
           => (c.loaded = NoProfile \/ c.loaded[1].scanning_enabled)
        /\ \A u \in Users :
              (\E d \in {"processable", "short"} : HasEvent(c.log, "skip", u, d))
              => \A i \in 1..Len(c.log) :
                    ~(c.log[i][2] = u /\ c.log[i][1] \in {"extract", "merge", "save", "rank", "notify"})

\* a cycle met a disabled profile with enough fragments to be analysed, and ended
C13_Witness ==
    \E u \in Users :
        /\ db_users[u].exists /\ ~db_users[u].scanning_enabled
        /\ tasks[Cycle].log = <<Event("skip", u, "processable")>>
        /\ tasks[Cycle].pc = "idle"
        /\ db_items[u] = NoInterests

\* a step in which a cycle returns: from its last iteration, or at once when it
\* starts and no identity makes it wait
CycleReturns ==
    /\ tasks'[Cycle].pc = "idle"
    /\ \/ tasks[Cycle].pc \notin {"idle", "crashed"}
       \/ daily_analysis

\* C14: when a cycle returns, no identity has a buffered fragment, whether or not
\* a profile changed and whether or not an iteration raised.
C14_ClearedAtEnd ==
    [][CycleReturns => (um_order' = <<>> /\ \A u \in Users : user_messages'[u] = <<>>)]_vars

\* a cycle whose save raised has returned and the buffer is empty
C14_Witness ==
    /\ tasks[Cycle].cmd = "daily_analysis" /\ tasks[Cycle].pc = "idle"
    /\ \E u \in Users : HasEvent(tasks[Cycle].log, "save", u, "error")
    /\ um_order = <<>> /\ \A u \in Users : user_messages[u] = <<>>

\* C15: no cycle clears a fragment that was recorded after the cycle read the
\* list of its identity.
C15_NoFragmentLost ==
    tasks[Cycle].lost = {}

\* a step of the cycle in which an iteration raises: its save or its merge
IterationFails ==
    LET log == tasks[Cycle].log
        after == tasks'[Cycle].log
    IN  /\ tasks[Cycle].cmd = "daily_analysis" /\ tasks[Cycle].pc \in PastGate
        /\ Len(after) = Len(log) + 1
        /\ after[Len(after)][1] \in {"save", "merge"}
        /\ after[Len(after)][3] = "error"

\* every identity of the buffer was brought to the gate: skipped for its
\* scanning flag, or handed to the extraction
AllHandled(c) ==
    \A u \in Users :
        \/ HasEvent(c.log, "extract", u, "call")
        \/ HasEvent(c.log, "skip", u, "processable")

\* C16: when the save or the merge of one identity raises, the cycle goes on as
\* after any iteration: the next identity of the buffer is looked up, with its
\* fragments and the store untouched by the failure, and after the last
\* identity the cycle returns; a cycle that has returned has brought every
\* identity of the buffer to the gate.
C16_ErrorsIsolated ==
    [][ /\ IterationFails
           => LET c == tasks[Cycle]
              IN  /\ db_users' = db_users /\ db_items' = db_items
                  /\ IF c.it_pos < Len(um_order)
                     THEN /\ tasks'[Cycle].pc = "find_user"
                          /\ tasks'[Cycle].user = um_order[c.it_pos + 1]
                          /\ tasks'[Cycle].it_pos = c.it_pos + 1
                          /\ user_messages' = user_messages
                     ELSE tasks'[Cycle].pc = "idle"
        /\ (tasks'[Cycle].pc = "idle" /\ tasks'[Cycle].log # <<>>) => AllHandled(tasks'[Cycle])
      ]_vars

\* the save of the first identity raised, and the second identity was analysed and saved
C16_Witness ==
    \E u, v \in Users :
        /\ u # v
        /\ tasks[Cycle].pc = "idle"
        /\ \E i, j \in 1..Len(tasks[Cycle].log) :
              /\ i < j
              /\ tasks[Cycle].log[i] = Event("save", u, "error")
              /\ tasks[Cycle].log[j] = Event("save", v, "ok")
        /\ db_items[v].games # <<>>

\* C17: a cycle that has started returns to idle in the end, whatever fails in
\* its iterations and whatever messages arrive while it runs.
C17_CycleReturnsToIdle ==
    (tasks[Cycle].cmd = "daily_analysis" /\ tasks[Cycle].pc # "idle") ~> (tasks[Cycle].pc = "idle")

\* the events of kind `kind` for the identity u in a log
EventsOf(log, kind, u) == {i \in 1..Len(log) : log[i][1] = kind /\ log[i][2] = u}

\* the iteration of the cycle for u is over: the cycle has moved on or returned
IterationOver(c, u) ==
    /\ c.cmd = "daily_analysis"
    /\ \E i \in 1..Len(c.log) : c.log[i][2] = u
    /\ c.user # u

\* C18: in a cycle, an identity whose merge appended an item is saved and then
\* ranked, and no other identity is: the save precedes the rank, each happens at
\* most once per identity, and the notifier is called only after a rank that
\* returned a match.
C18_RematchOncePerChange ==
    LET c == tasks[Cycle]
    IN  \A u \in Users :
          /\ Cardinality(EventsOf(c.log, "save", u)) <= 1
          /\ Cardinality(EventsOf(c.log, "rank", u)) <= 1
          /\ \A i \in EventsOf(c.log, "save", u) :
                \E j \in 1..(i - 1) : c.log[j] = Event("merge", u, "added")
          /\ \A i \in EventsOf(c.log, "rank", u) :
                \E j \in 1..(i - 1) : c.log[j] = Event("save", u, "ok")
          /\ \A i \in EventsOf(c.log, "notify", u) :
                /\ i > 1 /\ c.log[i - 1][1] = "rank" /\ c.log[i - 1][2] = u
                /\ (c.user = u /\ c.pc \in {"dm_user", "dm_match"}) => c.matches # <<>>
          /\ (IterationOver(c, u) /\ HasEvent(c.log, "merge", u, "added") /\ FirstGuildOf(u) # None)
             => /\ HasEvent(c.log, "save", u, "ok")
                /\ EventsOf(c.log, "rank", u) # {}

\* the identity for which notify_matches was called last before the event i
Notified(log, i) ==
    LET calls == {j \in 1..i : log[j][1] = "notify"}
    IN  log[CHOOSE j \in calls : \A k \in calls : k <= j][2]

\* C19: in notify_matches a direct message that the matched-for party refuses
\* is followed by the attempt to reach the other party of the pair.
C19_BothPartiesAttempted ==
    \A t \in Tasks :
        LET log == tasks[t].log
        IN  \A i \in 1..Len(log) :
              (log[i][1] = "dm" /\ log[i][3] = "Forbidden" /\ log[i][2] = Notified(log, i))
              => /\ i < Len(log)
                 /\ log[i + 1][1] = "dm"
                 /\ log[i + 1][2] # Notified(log, i)

\* C20: a save never raises: it stores the object whether or not the identity
\* has a row, also when the row was created after the saver looked it up.
C20_UpsertSucceeds ==
    \A t \in Tasks :
        \A i \in 1..Len(tasks[t].log) :
            tasks[t].log[i][1] = "save" => tasks[t].log[i][3] = "ok"

\* C21: every profile a lookup returns (find_by_discord_id to a handler,
\* find_all_except to a rank) is one snapshot that a committed save stored for
\* that identity, or the profile the store held to begin with: its flag and its
\* three categories never come from two different snapshots.
C21_ReadsAtomic ==
    \A t \in Tasks :
        LET tk == tasks[t]
        IN  /\ tk.loaded # NoProfile => tk.loaded[1] \in budget.stored[tk.loaded[1].discord_id]
            /\ \A i \in 1..Len(tk.all_profiles) :
                   tk.all_profiles[i] \in budget.stored[tk.all_profiles[i].discord_id]

\* the last step was on_message for a message of author a
Heard(a) == budget'.msgs = budget.msgs + 1 /\ fn'.op = "on_message" /\ fn'.args[1] = a

\* C22: an on_message whose author is a bot leaves the whole buffer as it was,
\* and the buffer never has an entry or a fragment under the key of a bot.
C22_BotNeverRecorded ==
    [][/\ Heard(BotUser) => UNCHANGED <<user_messages, um_order, recorded>>
       /\ user_messages'[BotUser] = <<>>
       /\ BotUser \notin Range(um_order')]_vars

\* a bot wrote while a user had fragments buffered, and they are still there
C22_Witness ==
    /\ fn.op = "on_message" /\ fn.args[1] = BotUser
    /\ \E u \in Users : Len(user_messages[u]) >= 2

\* the cycle has taken the list of c.user from the iterator and has not read it yet
AwaitsLookup(c) ==
    c.cmd = "daily_analysis" /\ c.pc \in {"find_user", "find_games", "find_artists", "find_interests"}

\* the list the cycle is about to evaluate ends with the n-th fragment recorded
\* for the identity since the last clear, and holds all n or at least the last 50
HoldsAllUpTo(c, n) ==
    LET list == BoundMessages(c)
    IN  /\ Len(list) <= n
        /\ list = SubSeq(recorded[c.user], n - Len(list) + 1, n)
        /\ Len(list) = n \/ Len(list) >= BufferCap

EvaluatesAllRecorded ==
    LET c == tasks[Cycle]
    IN  AwaitsLookup(c) =>
          IF c.messages = <<>>
          THEN HoldsAllUpTo(c, Len(recorded[c.user]))
          ELSE HoldsAllUpTo(c, c.examined[c.user])

\* C23: the list a cycle evaluates for an identity holds every fragment recorded
\* for it up to a moment that is not before the cycle began (now, or the moment
\* the key was bound to a new list during this lookup), cut to the last 50 at
\* most; and the first record of an identity without an entry (none yet, or
\* none since the clear) starts an entry with that fragment alone.
C23_RecordedBeforeIsEvaluated ==
    [][/\ EvaluatesAllRecorded'
       /\ \A a \in Authors :
             (user_messages[a] = <<>> /\ user_messages'[a] # <<>>)
             => /\ recorded[a] = <<>>
                /\ Len(user_messages'[a]) = 1
                /\ um_order' = Append(um_order, a)]_vars

\* the cycle is looking up an identity whose key was bound to a new list by the
\* 51st fragment, and a 52nd has been recorded since: it evaluates the first 51
C23_Witness ==
    /\ AwaitsLookup(tasks[Cycle])
    /\ tasks[Cycle].messages # <<>>
    /\ Len(tasks[Cycle].messages[1]) = 51
    /\ Len(recorded[tasks[Cycle].user]) = 52

\* C24: among the returned pairs of equal score, a candidate that came earlier
\* in the list find_all_except returned stands earlier in the result; and a
\* qualifying candidate that the cut to 5 dropped came later in that list than
\* every returned candidate of the same score.
C24_StableTies ==
    Returned_fn("find_matches")
    => LET subject == fn.args[1]
           candidates == fn.args[2]
           result == fn.out[1]
           score(i) == calculate_similarity(subject, candidates[i])
           Qualifying == {i \in 1..Len(candidates) :
                            /\ candidates[i].discord_id \in Members(fn.args[3])
                            /\ ClearsThreshold(score(i))}
           pos(k) == CHOOSE i \in 1..Len(candidates) : candidates[i] = result[k][1]
           Returns(i) == \E k \in 1..Len(result) : result[k][1] = candidates[i]
       IN  /\ \A k, l \in 1..Len(result) :
                (k < l /\ ScoreEq(result[k][2], result[l][2])) => pos(k) < pos(l)
           /\ \A i \in Qualifying : \A k \in 1..Len(result) :
                (~Returns(i) /\ ScoreEq(result[k][2], score(i))) => pos(k) < i
           /\ (candidates = Candidates(<<18, 6, 6, 6, 6, 6>>) /\ fn.args[3] = "g3")
              => [k \in 1..5 |-> result[k][1].discord_id] = <<"c1", "c2", "c3", "c4", "c5">>

\* six qualifying candidates, the last five of equal score: the cut falls inside the tie
C24_Witness ==
    /\ Returned_fn("find_matches")
    /\ fn.args[2] = Candidates(<<18, 6, 6, 6, 6, 6>>) /\ fn.args[3] = "g3"
    /\ Len(fn.out[1]) = 5
    /\ fn.out[1][5][1].discord_id = "c5"

\* C25: the profiles find_all_except hands to a rank and the matches find_matches
\* returns never include the subject, every match is a member of the guild the
\* rank ran in, and every direct message of a run goes to a member of that guild:
\* a call of the notifier always finds a pair to deliver.
C25_NoSelfNoOutsider ==
    \A t \in Tasks :
        LET tk == tasks[t]
        IN  /\ \A i \in 1..Len(tk.all_profiles) : tk.all_profiles[i].discord_id # tk.user
            /\ \A i \in 1..Len(tk.matches) :
                   /\ tk.matches[i][1].discord_id # tk.user
                   /\ tk.matches[i][1].discord_id \in Members(tk.guild)
            /\ tk.pc \in {"dm_user", "dm_match"} =>
                   /\ tk.user \in Members(tk.guild)
                   /\ tk.matches[tk.mi][1].discord_id \in Members(tk.guild) \ {tk.user}
            \* the notifier is never called with matches of which none resolves
            /\ (tk.log # <<>> /\ tk.log[Len(tk.log)][1] = "notify") => tk.pc = "dm_user"

\* u1 added an item in g2, where u2 is no member: the rank ran and notified
\* nobody, though the stored profile of u2 scores 3/10 or more against u1's
C25_Witness ==
    \E h \in Handlers :
        LET tk == tasks[h]
        IN  /\ tk.cmd = "add_interest" /\ tk.user = "u1" /\ tk.guild = "g2"
            /\ tk.log = <<Event("save", "u1", "ok"), Event("rank", "u1", "g2")>>
            /\ HasEvent(tasks[Cycle].log, "save", "u2", "ok")
            /\ tasks[Cycle].user = "u1"
            /\ ClearsThreshold(calculate_similarity(tk.user_profile[1], StoredProfile("u2")))

\* C26: when a cycle that ran alone has ended, every identity u whose changed
\* profile it ranked has been through the notifier if some identity v, saved
\* before that rank, shares a guild with u and scores 3/10 or more against u,
\* whichever guild they share.
C26_RankedInEveryGuild ==
    LET c == tasks[Cycle]
    IN  (c.cmd = "daily_analysis" /\ c.pc = "idle" /\ \A h \in Handlers : tasks[h].cmd = "none")
        => \A u, v \in Users :
             ( /\ u # v
               /\ \E i, j \in 1..Len(c.log) :
                     /\ i < j
                     /\ c.log[i] = Event("save", v, "ok")
                     /\ c.log[j][1] = "rank" /\ c.log[j][2] = u
               /\ \E g \in Guilds : {u, v} \subseteq Members(g)
               /\ ClearsThreshold(calculate_similarity(StoredProfile(u), StoredProfile(v))) )
             => \E g \in Guilds : HasEvent(c.log, "notify", u, g)

\* the positions of q, in order, whose pair has a match that resolves in guild g
RECURSIVE Resolvable(_, _, _)
Resolvable(q, g, i) ==
    IF i > Len(q) THEN <<>>
    ELSE (IF q[i][1].discord_id \in Members(g) THEN <<i>> ELSE <<>>) \o Resolvable(q, g, i + 1)

\* C27: notify_matches attempts no delivery at all when the subject does not
\* resolve in the guild; otherwise it attempts delivery for exactly the pairs
\* whose matched identity resolves, in order: a pair that does not resolve is
\* passed over and the pairs after it are still processed.
C27_UnresolvedSkipped ==
    Returned_fn("notify_matches")
    => LET subject == fn.args[1]
           matches == fn.args[2]
           guild == fn.args[3]
           attempted == fn.out[1]
       IN  attempted = IF subject.discord_id \in Members(guild)
                       THEN Resolvable(matches, guild, 1)
                       ELSE <<>>

\* c2 ranks first and does not resolve in g4: the two pairs after it are attempted
C27_Witness ==
    /\ Returned_fn("notify_matches")
    /\ fn.args[3] = "g4"
    /\ Len(fn.args[2]) = 3
    /\ fn.args[2][1][1].discord_id = "c2"
    /\ fn.out[1] = <<2, 3>>

\* the command of handler tk has appended its item to the category in memory
Appended(tk) ==
    /\ tk.cmd = "add_interest"
    /\ tk.user_profile # NoProfile
    /\ LET cat == Lower(tk.category)
            before == IF tk.loaded = NoProfile THEN FreshProfile(tk.user) ELSE tk.loaded[1]
        IN  tk.user_profile[1][cat] = Append(before[cat], tk.interest)

\* C28: an add_interest that appended its item ends with the answer "added",
\* after exactly one save, which succeeded, then exactly one rank, in the
\* invoking guild, then the notifier at most once and only with a match to
\* deliver; it answers nothing before these steps are done. A remove_interest
\* or a scanning toggle never ranks, notifies or sends a direct message.
C28_LiveEditPath ==
    \A h \in Handlers :
        LET tk == tasks[h]
            log == tk.log
        IN  /\ (Appended(tk) /\ tk.pc = "done") =>
                  /\ tk.response = "added"
                  /\ Len(log) >= 2
                  /\ log[1] = Event("save", tk.user, "ok")
                  /\ log[2] = Event("rank", tk.user, tk.guild)
                  /\ \A i \in 3..Len(log) : log[i][1] \notin {"save", "rank"}
                  /\ \A i \in 1..Len(log) : log[i][1] = "notify" => i = 3 /\ Len(log) >= 4
            /\ (Appended(tk) /\ tk.pc # "done") => tk.response = "none"
            /\ tk.pc \in {"dm_user", "dm_match"} => (tk.matches # <<>> /\ HasEvent(log, "notify", tk.user, tk.guild))
            /\ tk.cmd \in {"remove_interest", "disable_scanning", "enable_scanning"} =>
                  \A i \in 1..Len(log) : log[i][1] = "save"

\* C29: once a disable_scanning of an identity has answered, and while it is
\* the last command, the stored flag of the identity is off: no save of a cycle
\* or of a command that looked the profile up earlier turns it on again.
C29_ScanningStaysOff ==
    \A h \in Handlers :
        LET tk == tasks[h]
        IN  (tk.cmd = "disable_scanning" /\ tk.response = "disabled")
            => ~db_users[tk.user].scanning_enabled

\* the cycle has saved the profile of c.user in this iteration and is ranking or notifying
AfterCycleSave(c) ==
    /\ c.cmd = "daily_analysis"
    /\ c.pc \in {"find_all", "fa_games", "fa_artists", "fa_interests", "dm_user", "dm_match"}

\* the handler tk has removed item x from category cat of identity u
RemovedBy(tk, u, cat, x) ==
    /\ tk.cmd = "remove_interest" /\ tk.response = "removed"
    /\ tk.user = u /\ Lower(tk.category) = cat /\ tk.interest = x

\* C30: the item of an add_interest that answered "added" is in the stored
\* category while that command is the last one; and every item a cycle has just
\* saved as newly extracted is in the stored category while the cycle is still
\* ranking for that identity, unless a remove_interest removed it.
C30_NoAdditionLost ==
    /\ \A h \in Handlers :
          LET tk == tasks[h]
          IN  (tk.cmd = "add_interest" /\ tk.response = "added")
              => tk.interest \in Range(db_items[tk.user][Lower(tk.category)])
    /\ LET c == tasks[Cycle]
           before == IF c.loaded = NoProfile THEN FreshProfile(c.user) ELSE c.loaded[1]
       IN  AfterCycleSave(c) =>
             \A cat \in Categories :
               \A x \in Range(c.user_profile[1][cat]) \ Range(before[cat]) :
                  \/ x \in Range(db_items[c.user][cat])
                  \/ \E h \in Handlers : RemovedBy(tasks[h], c.user, cat, x)
====
